---------------------------- MODULE Spec2Model ----------------------------
(***************************************************************************)
(* Model of project_builder.py: the ProjectWorker provisioning pipeline    *)
(* (ProjectWorker.run and the methods it calls), the external child        *)
(* process it streams, and the observer's cancel request.                  *)
(*                                                                         *)
(* Text is modelled as a sequence of one-character strings, so that the    *)
(* name predicate validate_package_name is computed character by           *)
(* character as the source computes it.  The backtick character is         *)
(* written "BQ" (the lexer does not take it inside a string).              *)
(***************************************************************************)
EXTENDS Integers, Sequences, FiniteSets, TLC

(***************************************************************************)
(* Bounds of the model.                                                    *)
(***************************************************************************)
\* longest package list handed to a worker
MaxPkgs == 2
\* most output lines the child processes of one run write in total
MaxLines == 1
\* largest total the size walk of calculate_project_size can accumulate
MaxSize == 1
\* most environment faults (I/O errors, failed launches, missing tools) in one run
MaxFaults == 2
\* most workers the observer starts in one session
MaxRuns == 3
\* most handler calls waiting in the event loop at one time
MaxQueued == 2

(***************************************************************************)
(* Text helpers (Python str operations used by the source).                *)
(***************************************************************************)
Lower == {"a", "b", "c", "d", "e", "f", "g", "h", "i", "j", "k", "l", "m",
          "n", "o", "p", "q", "r", "s", "t", "u", "v", "w", "x", "y", "z"}

Upper == {"A", "B", "C", "D", "E", "F", "G", "H", "I", "J", "K", "L", "M",
          "N", "O", "P", "Q", "R", "S", "T", "U", "V", "W", "X", "Y", "Z"}

Digit == {"0", "1", "2", "3", "4", "5", "6", "7", "8", "9"}

\* [a-zA-Z0-9] of the pattern at line 71
AlnumChars == Lower \cup Upper \cup Digit

\* [a-zA-Z0-9._-] of the pattern at line 71
InnerChars == AlnumChars \cup {".", "_", "-"}

\* the characters tested at line 63
MetaChars == {";", "|", "&", "$", "BQ"}

\* characters str.strip() removes
WhiteChars == {" ", "\t", "\n", "\r"}

\* the separators of line 57, in the order the loop tries them
VersionSeps == << <<"=", "=">>, <<">", "=">>, <<"<", "=">>, <<">">>, <<"<">>,
                  <<"~", "=">>, <<"!", "=">> >>

\* the prefixes of line 67
UrlPrefixes == { <<"h", "t", "t", "p", ":", "/", "/">>,
                 <<"h", "t", "t", "p", "s", ":", "/", "/">>,
                 <<"g", "i", "t", "+">>,
                 <<"s", "v", "n", "+">> }

\* sub occurs in s at position i
OccursAt(s, sub, i) ==
    /\ i >= 1
    /\ i + Len(sub) - 1 <= Len(s)
    /\ \A j \in 1..Len(sub) : s[i + j - 1] = sub[j]

\* Python: sub in s
Contains(s, sub) == \E i \in 1..(Len(s) + 1) : OccursAt(s, sub, i)

\* Python: s.split(sub)[0] -- the text before the first occurrence of sub
SplitFirst(s, sub) ==
    IF Contains(s, sub)
    THEN LET i == CHOOSE k \in 1..(Len(s) + 1) :
                      /\ OccursAt(s, sub, k)
                      /\ \A m \in 1..(k - 1) : ~OccursAt(s, sub, m)
         IN  SubSeq(s, 1, i - 1)
    ELSE s

\* Python: s.startswith(pre)
StartsWith(s, pre) == OccursAt(s, pre, 1)

\* Python: s.strip()
Strip(s) ==
    LET keep == {i \in 1..Len(s) : s[i] \notin WhiteChars}
    IN  IF keep = {} THEN <<>>
        ELSE LET lo == CHOOSE i \in keep : \A j \in keep : i <= j
                 hi == CHOOSE i \in keep : \A j \in keep : j <= i
             IN  SubSeq(s, lo, hi)

\* lines 56-60: the text before the first separator that occurs in pkg
BaseName(pkg) ==
    LET hits == {k \in 1..Len(VersionSeps) : Contains(pkg, VersionSeps[k])}
    IN  IF hits = {} THEN pkg
        ELSE LET first == CHOOSE k \in hits : \A m \in hits : k <= m
             IN  SplitFirst(pkg, VersionSeps[first])

\* line 71-72: re.match(r'^[a-zA-Z0-9][a-zA-Z0-9._-]*[a-zA-Z0-9]$', base);
\* '$' also matches just before one trailing newline
PatternMatches(base) ==
    LET core == IF Len(base) >= 1 /\ base[Len(base)] = "\n"
                THEN SubSeq(base, 1, Len(base) - 1) ELSE base
        Full(t) == /\ Len(t) >= 2
                   /\ t[1] \in AlnumChars
                   /\ t[Len(t)] \in AlnumChars
                   /\ \A i \in 2..(Len(t) - 1) : t[i] \in InnerChars
    IN  Full(base) \/ Full(core)

\* lines 50-75
validate_package_name(pkg) ==
    IF pkg = <<>> THEN [valid |-> FALSE, msg |-> "empty"]
    ELSE LET base_name == BaseName(pkg)
         IN  IF \E i \in 1..Len(base_name) : base_name[i] \in MetaChars
             THEN [valid |-> FALSE, msg |-> "invalid characters"]
             ELSE IF \E pre \in UrlPrefixes : StartsWith(base_name, pre)
             THEN [valid |-> FALSE, msg |-> "direct url"]
             ELSE IF ~PatternMatches(base_name)
             THEN [valid |-> FALSE, msg |-> "invalid format"]
             ELSE [valid |-> TRUE, msg |-> ""]

\* the entry's text holds a shell metacharacter anywhere
HasMetaChar(pkg) == \E i \in 1..Len(pkg) : pkg[i] \in MetaChars

(***************************************************************************)
(* Package texts the requests are drawn from.  The constructor (line 186)  *)
(* keeps whatever list it is given.  on_create (lines 1102-1110) hands     *)
(* over the entries validate_package_name accepts: of the three texts      *)
(* below those are "ab" and "cd==1;e"; " a;b" reaches a worker only from  *)
(* a caller that does not filter.                                          *)
(***************************************************************************)
\* "ab"
PkgPlain == <<"a", "b">>
\* " a;b": surrounding blanks are kept by the constructor
PkgMetaBase == <<" ", "a", ";", "b">>
\* "cd==1;e"
PkgMetaVersion == <<"c", "d", "=", "=", "1", ";", "e">>

\* the list the requests are selections of
PkgPool == <<PkgPlain, PkgMetaBase, PkgMetaVersion>>

\* the entries of PkgPool at the positions in keep, from position i on, in order
RECURSIVE Selection(_, _)
Selection(keep, i) ==
    IF i > Len(PkgPool) THEN <<>>
    ELSE (IF i \in keep THEN <<PkgPool[i]>> ELSE <<>>) \o Selection(keep, i + 1)

\* a request names each package once; the worker treats the entries alike, so
\* the requests are the selections of at most MaxPkgs entries in one order
PackageLists ==
    {Selection(keep, 1) : keep \in {k \in SUBSET (1..Len(PkgPool)) : Cardinality(k) <= MaxPkgs}}


(***************************************************************************)
(* State.                                                                  *)
(***************************************************************************)
VARIABLES
    packages,            \* ProjectWorker.packages: the list handed to the worker
    options,             \* ProjectWorker.options
    pc,                  \* position of the worker thread in run()
    caller,              \* call site run_command_stream returns to
    cmd,                 \* argument vector of the current run_command_stream call
    rc,                  \* value the last run_command_stream call returned
    valid_packages,      \* local of install_packages_batch, argument of _individual
    idx,                 \* loop index of install_packages_individual
    success_count,       \* local of install_packages_individual
    use_python_for_pip,  \* local of run()
    dir_idx,             \* loop position of create_directory_structure
    success,             \* ProjectWorker.success
    venv_path,           \* ProjectWorker.venv_path ("None" until line 553)
    project_size,        \* ProjectWorker.project_size
    stop_event,          \* the shared threading.Event
    msgq,                \* the shared queue.Queue
    emitted,             \* history: every event post() has put, in order
    invocations,         \* history: every argument vector handed to a process launch
    returns,             \* history: the value each run_command_stream call returned
    proc,                \* the child process of the current run_command_stream call
    fs,                  \* the project directory tree
    faults,              \* number of environment faults that have occurred in the run
    callbacks,           \* handlers queued with after(0), oldest first
    dialogs,             \* on_create calls waiting in a confirmation dialog
    processed,           \* history: the events _periodic_check has handled, in order
    runs,                \* number of workers started so far
    orphans,             \* live workers self.worker no longer refers to
    stale                \* history: events at the head of the queue that an earlier run emitted

reqVars == <<packages, options>>
uiVars == <<callbacks, dialogs, processed, runs, orphans, stale>>
callVars == <<caller, cmd, rc>>
installVars == <<valid_packages, idx, success_count, use_python_for_pip>>
runVars == <<dir_idx, success, venv_path, project_size>>

\* a step in which the environment raises a fault, and one in which it does not
Fault == faults < MaxFaults /\ faults' = faults + 1
NoFault == faults' = faults
chanVars == <<msgq, emitted>>
vars == <<packages, options, pc, caller, cmd, rc, valid_packages, idx,
          success_count, use_python_for_pip, dir_idx, success, venv_path,
          project_size, stop_event, msgq, emitted, invocations, returns, proc, fs,
          faults, callbacks, dialogs, processed, runs, orphans, stale>>

(***************************************************************************)
(* Events put on the queue by post(kind, text).                            *)
(***************************************************************************)
Log(t) == [kind |-> "log", text |-> t]
Ok(t) == [kind |-> "ok", text |-> t]
Warn(t) == [kind |-> "warn", text |-> t]
Error(t) == [kind |-> "error", text |-> t]
Info(t) == [kind |-> "info", text |-> t]
\* line 251: the Log event of the n-th line the children of the run have written
OutputLog(n) == [kind |-> "log", text |-> "process output line", line |-> n]
\* line 318
SkipNotice(p, m) == [kind |-> "warn", text |-> "Skipping invalid package", pkg |-> p, msg |-> m]
\* line 360
InstalledOf(k, n) == [kind |-> "warn", text |-> "Installed k/total packages", k |-> k, total |-> n]
\* line 354: the payload is idx / total
Progress(i, n) == [kind |-> "progress", idx |-> i, total |-> n]
\* lines 612 and 627: the payload carries the check mark or the cross
Done(b) == [kind |-> "done", ok |-> b]
ProgressComplete == [kind |-> "progress_complete"]

\* lines 195-197
post(evs) ==
    /\ msgq' = msgq \o evs
    /\ emitted' = emitted \o evs

(***************************************************************************)
(* External processes.                                                     *)
(***************************************************************************)
\* exit codes a child that really ran can end with
ExitCodes == {0, 1}

NoProc == [state |-> "none", pipe |-> 0, written |-> 0, returncode |-> -1, argv |-> <<>>]

\* line 291-294
VenvCmd == [tool |-> "venv", mode |-> "venv", args |-> <<>>]
\* line 325
BatchCmd(pkgs) == [tool |-> "pip", mode |-> "batch", args |-> pkgs]
\* line 345
IndividualCmd(pkg) == [tool |-> "pip", mode |-> "individual", args |-> <<pkg>>]
\* lines 580-581
PythonPipCmd(pkgs) == [tool |-> "python -m pip", mode |-> "batch", args |-> pkgs]

Range(q) == {q[i] : i \in 1..Len(q)}

VenvPresent == fs.venv \in {"pre", "partial", "built"}

(***************************************************************************)
(* Init: a worker has been constructed (lines 182-193) and started.        *)
(***************************************************************************)
Init ==
    /\ packages \in PackageLists
    /\ options \in [create_readme : BOOLEAN, create_git : BOOLEAN, cleanup_on_fail : BOOLEAN]
    /\ pc = "create_folder"
    /\ caller = "none"
    /\ cmd = VenvCmd
    /\ rc = 0
    /\ valid_packages = <<>>
    /\ idx = 0
    /\ success_count = 0
    /\ use_python_for_pip = FALSE
    /\ dir_idx = 1
    /\ success = FALSE
    /\ venv_path = "None"
    /\ project_size = 0
    /\ stop_event = FALSE
    /\ msgq = <<>>
    /\ emitted = <<>>
    /\ invocations = <<>>
    /\ returns = <<>>
    /\ proc = NoProc
    /\ faults = 0
    /\ callbacks = <<>>
    /\ dialogs = 0
    /\ processed = <<>>
    /\ runs = 1
    /\ orphans = 0
    /\ stale = 0
    /\ fs \in [folder : {FALSE}, dirs : {{}}, venv : {"absent", "pre"},
               installed : {{}}, manifest_written : {FALSE}, manifest : {<<>>},
               readme : {FALSE}, git : {"none"}]

\* ProjectWorker._cleanup_on_cancel, set at line 192
cleanup_on_cancel == options.cleanup_on_fail

\* self.worker and self.worker.is_alive() (lines 1045 and 1152)
WorkerAlive == pc \notin {"no_worker", "finished"}

(***************************************************************************)
(* run(), step 1: the project folder (lines 541-547).                      *)
(***************************************************************************)
\* faulty variant: the run goes on to the layout after the folder fault
CreateFolderContinues ==
    /\ pc = "create_folder"
    /\ \E mkdir_ok \in BOOLEAN :
          IF mkdir_ok
          THEN /\ NoFault
               /\ fs' = [fs EXCEPT !.folder = TRUE]
               /\ post(<<Ok("Project folder")>>)
          ELSE /\ Fault
               /\ fs' = fs
               /\ post(<<Error("Cannot create project folder")>>)
    /\ pc' = "create_dirs"
    /\ UNCHANGED <<uiVars, reqVars, callVars, installVars, runVars, stop_event, invocations, proc, returns>>

CreateFolder ==
    /\ pc = "create_folder"
    /\ \E mkdir_ok \in BOOLEAN :
          IF mkdir_ok
          THEN /\ NoFault
               /\ fs' = [fs EXCEPT !.folder = TRUE]
               /\ post(<<Ok("Project folder")>>)
               /\ pc' = "create_dirs"
          ELSE /\ Fault
               /\ fs' = fs
               /\ post(<<Error("Cannot create project folder")>>)
               /\ pc' = "finally"
    /\ UNCHANGED <<uiVars, reqVars, callVars, installVars, runVars, stop_event, invocations, proc, returns>>

(***************************************************************************)
(* run(), step 2: create_directory_structure (lines 255-275), one loop     *)
(* iteration per step.  mkdir and touch may raise; nothing in the method   *)
(* catches, so the fault reaches the handler at line 620.                  *)
(***************************************************************************)
Directories == <<"src", "tests", "docs", "data", "notebooks", "config", "logs">>

\* faulty variant: Path.mkdir without exist_ok
mkdir_exclusive(dirs, d, exist_ok) ==
    IF d \in dirs
    THEN [raises |-> TRUE, dirs |-> dirs]
    ELSE [raises |-> FALSE, dirs |-> dirs \cup {d}]

\* Path.mkdir(exist_ok=...) on a name that is absent or a directory (line 269)
mkdir(dirs, d, exist_ok) ==
    IF d \in dirs /\ ~exist_ok
    THEN [raises |-> TRUE, dirs |-> dirs]
    ELSE [raises |-> FALSE, dirs |-> dirs \cup {d}]

create_directory_structure ==
    /\ pc = "create_dirs"
    /\ LET directory == Directories[dir_idx]
           next_pc == IF dir_idx = Len(Directories) THEN "venv_check" ELSE "create_dirs"
           made == mkdir(fs.dirs, directory, TRUE)
       IN  \E outcome \in {"ok", "exists", "mkdir raises", "touch raises"} :
              \/ /\ outcome = "ok"
                 /\ ~made.raises
                 /\ NoFault
                 /\ fs' = [fs EXCEPT !.dirs = made.dirs]
                 /\ post(<<Log("Created directory")>>)
                 /\ dir_idx' = IF dir_idx = Len(Directories) THEN dir_idx ELSE dir_idx + 1
                 /\ pc' = next_pc
              \/ /\ outcome = "exists"
                 /\ made.raises
                 /\ NoFault
                 /\ fs' = fs
                 /\ post(<<>>)
                 /\ dir_idx' = dir_idx
                 /\ pc' = "except"
              \/ /\ outcome = "mkdir raises"
                 /\ Fault
                 /\ fs' = fs
                 /\ post(<<>>)
                 /\ dir_idx' = dir_idx
                 /\ pc' = "except"
              \/ /\ outcome = "touch raises"
                 /\ Fault
                 /\ directory \in {"src", "tests"}
                 /\ ~made.raises
                 /\ fs' = [fs EXCEPT !.dirs = made.dirs]
                 /\ post(<<Log("Created directory")>>)
                 /\ dir_idx' = dir_idx
                 /\ pc' = "except"
    /\ UNCHANGED <<uiVars, reqVars, callVars, installVars, success, venv_path, project_size,
                   stop_event, invocations, proc, returns>>

(***************************************************************************)
(* _cleanup_partial (lines 529-536), followed by the return of run().      *)
(***************************************************************************)
\* faulty variant: the cleanup_on_fail option is not consulted
cleanup_ignoring_option ==
    /\ pc = "cleanup"
    /\ IF venv_path # "None" /\ VenvPresent
       THEN /\ NoFault
            /\ fs' = [fs EXCEPT !.venv = "removed", !.installed = {}]
            /\ post(<<Log("Cleaned up partial virtual environment.")>>)
       ELSE /\ NoFault
            /\ fs' = fs
            /\ post(<<>>)
    /\ pc' = "finally"
    /\ UNCHANGED <<uiVars, reqVars, callVars, installVars, runVars, stop_event, invocations, returns,
                   proc>>

_cleanup_partial ==
    /\ pc = "cleanup"
    /\ IF cleanup_on_cancel /\ venv_path # "None" /\ VenvPresent
       THEN \E rmtree_ok \in BOOLEAN :
               IF rmtree_ok
               THEN /\ NoFault
                    /\ fs' = [fs EXCEPT !.venv = "removed", !.installed = {}]
                    /\ post(<<Log("Cleaned up partial virtual environment.")>>)
               ELSE /\ Fault
                    /\ fs' = fs
                    /\ post(<<Warn("Failed to cleanup")>>)
       ELSE /\ NoFault
            /\ fs' = fs
            /\ post(<<>>)
    /\ pc' = "finally"
    /\ UNCHANGED <<uiVars, reqVars, callVars, installVars, runVars, stop_event, invocations, proc, returns>>

(***************************************************************************)
(* run(), step 3 (lines 552-559) and create_venv (lines 277-302).          *)
(***************************************************************************)
\* faulty variant: the environment is built whether or not it exists
VenvCheckAlwaysBuilds ==
    /\ pc = "venv_check"
    /\ venv_path' = "venv"
    /\ post(<<>>)
    /\ pc' = "create_venv"
    /\ UNCHANGED <<uiVars, reqVars, callVars, installVars, dir_idx, success, project_size,
                   stop_event, invocations, proc, fs, faults, returns>>

VenvCheck ==
    /\ pc = "venv_check"
    /\ venv_path' = "venv"
    /\ IF VenvPresent
       THEN /\ post(<<Warn("venv already exists, reusing.")>>)
            /\ pc' = "locate_installer"
       ELSE /\ post(<<>>)
            /\ pc' = "create_venv"
    /\ UNCHANGED <<uiVars, reqVars, callVars, installVars, dir_idx, success, project_size,
                   stop_event, invocations, proc, fs, faults, returns>>

\* lines 279-296: the write test, then the call of run_command_stream
create_venv ==
    /\ pc = "create_venv"
    /\ \E test \in {"ok", "PermissionError", "other fault"} :
          \/ /\ test = "ok"
             /\ NoFault
             /\ post(<<Log("Creating virtual environment")>>)
             /\ cmd' = VenvCmd
             /\ caller' = "create_venv"
             /\ pc' = "rcs_launch"
          \/ /\ test = "PermissionError"
             /\ Fault
             /\ post(<<Error("No write permission")>>)
             /\ UNCHANGED <<cmd, caller>>
             /\ pc' = "cleanup"
          \/ /\ test = "other fault"
             /\ Fault
             /\ post(<<>>)
             /\ UNCHANGED <<cmd, caller>>
             /\ pc' = "except"
    /\ UNCHANGED <<uiVars, reqVars, rc, installVars, runVars, stop_event, invocations, proc, fs, returns>>

\* faulty variant: the result of create_venv is not looked at by run()
create_venv_return_unchecked ==
    /\ pc = "create_venv_return"
    /\ IF rc # 0
       THEN post(<<Error("Virtual environment creation failed.")>>)
       ELSE post(<<Ok("Virtual environment created successfully.")>>)
    /\ pc' = "locate_installer"
    /\ UNCHANGED <<uiVars, reqVars, callVars, installVars, runVars, stop_event, invocations, proc, fs,
                   faults, returns>>

\* lines 297-302 and 557-559
create_venv_return ==
    /\ pc = "create_venv_return"
    /\ IF rc # 0
       THEN /\ post(<<Error("Virtual environment creation failed.")>>)
            /\ pc' = "cleanup"
       ELSE /\ post(<<Ok("Virtual environment created successfully.")>>)
            /\ pc' = "locate_installer"
    /\ UNCHANGED <<uiVars, reqVars, callVars, installVars, runVars, stop_event, invocations, proc, fs, faults, returns>>


(***************************************************************************)
(* run_command_stream (lines 218-253).  The worker's steps are the launch, *)
(* the cancellation check at the top of the loop, and the blocking         *)
(* readline with the poll that follows it.                                 *)
(***************************************************************************)
\* the value run_command_stream returns at lines 234 and 244
FailureCode == 1

ReturnSite(c) ==
    CASE c = "create_venv" -> "create_venv_return"
      [] c = "batch" -> "batch_return"
      [] c = "individual" -> "individual_return"
      [] c = "run_install" -> "python_pip_return"

\* faulty variant: the launch fault is reported but zero is returned
rcs_launch_returns_zero ==
    /\ pc = "rcs_launch"
    /\ invocations' = Append(invocations, cmd)
    /\ \E launched \in BOOLEAN :
          IF launched
          THEN /\ NoFault
               /\ proc' = [state |-> "running", pipe |-> 0, written |-> proc.written,
                           returncode |-> -1, argv |-> cmd]
               /\ post(<<>>)
               /\ rc' = rc
               /\ returns' = returns
               /\ pc' = "rcs_check"
          ELSE /\ Fault
               /\ proc' = proc
               /\ post(<<Error("Failed to run command")>>)
               /\ rc' = 0
               /\ returns' = Append(returns, 0)
               /\ pc' = ReturnSite(caller)
    /\ UNCHANGED <<uiVars, reqVars, caller, cmd, installVars, runVars, stop_event, fs>>

\* lines 220-234: subprocess.Popen, or the launch fault
rcs_launch ==
    /\ pc = "rcs_launch"
    /\ invocations' = Append(invocations, cmd)
    /\ \E launched \in BOOLEAN :
          IF launched
          THEN /\ NoFault
               /\ proc' = [state |-> "running", pipe |-> 0, written |-> proc.written,
                           returncode |-> -1, argv |-> cmd]
               /\ post(<<>>)
               /\ rc' = rc
               /\ returns' = returns
               /\ pc' = "rcs_check"
          ELSE /\ Fault
               /\ proc' = proc
               /\ post(<<Error("Failed to run command")>>)
               /\ rc' = FailureCode
               /\ returns' = Append(returns, FailureCode)
               /\ pc' = ReturnSite(caller)
    /\ UNCHANGED <<uiVars, reqVars, caller, cmd, installVars, runVars, stop_event, fs>>

\* lines 238-244: proc.kill() may raise, and the fault is swallowed
rcs_check ==
    /\ pc = "rcs_check"
    /\ IF stop_event
       THEN /\ \E killed \in BOOLEAN :
                  IF killed
                  THEN /\ NoFault
                       /\ proc' = IF proc.state = "running"
                                  THEN [proc EXCEPT !.state = "killed"] ELSE proc
                  ELSE /\ Fault
                       /\ proc' = proc
            /\ post(<<Warn("Operation cancelled by user.")>>)
            /\ rc' = FailureCode
            /\ returns' = Append(returns, FailureCode)
            /\ pc' = ReturnSite(caller)
       ELSE /\ NoFault
            /\ proc' = proc
            /\ post(<<>>)
            /\ rc' = rc
            /\ returns' = returns
            /\ pc' = "rcs_read"
    /\ UNCHANGED <<uiVars, reqVars, caller, cmd, installVars, runVars, stop_event, invocations, fs>>

\* faulty variant: the loop is left as soon as the child has exited,
\* whatever the pipe still holds
rcs_read_no_drain ==
    /\ pc = "rcs_read"
    /\ proc.pipe > 0 \/ proc.state = "exited"
    /\ IF proc.pipe > 0 /\ proc.state # "exited"
       THEN /\ proc' = [proc EXCEPT !.pipe = @ - 1]
            /\ post(<<OutputLog(proc.written - proc.pipe + 1)>>)
            /\ rc' = rc
            /\ returns' = returns
            /\ pc' = "rcs_check"
       ELSE /\ proc' = proc
            /\ post(<<>>)
            /\ rc' = proc.returncode
            /\ returns' = Append(returns, proc.returncode)
            /\ pc' = ReturnSite(caller)
    /\ UNCHANGED <<uiVars, reqVars, caller, cmd, installVars, runVars, stop_event, invocations, fs, faults>>

\* lines 246-253: readline returns when a line is there or at end of file;
\* the pipe is first in, first out, so the line read is the oldest unread one
rcs_read ==
    /\ pc = "rcs_read"
    /\ proc.pipe > 0 \/ proc.state = "exited"
    /\ IF proc.pipe > 0
       THEN /\ proc' = [proc EXCEPT !.pipe = @ - 1]
            /\ post(<<OutputLog(proc.written - proc.pipe + 1)>>)
            /\ rc' = rc
            /\ returns' = returns
            /\ pc' = "rcs_check"
       ELSE /\ proc' = proc
            /\ post(<<>>)
            /\ rc' = proc.returncode
            /\ returns' = Append(returns, proc.returncode)
            /\ pc' = ReturnSite(caller)
    /\ UNCHANGED <<uiVars, reqVars, caller, cmd, installVars, runVars, stop_event, invocations, fs, faults>>

(***************************************************************************)
(* The child process (external): it writes lines, works and exits.  The    *)
(* field written counts the lines the children of the run have written so  *)
(* far, the current child included.                                        *)
(***************************************************************************)
ChildWrite ==
    /\ proc.state = "running"
    /\ proc.written < MaxLines
    /\ proc' = [proc EXCEPT !.pipe = @ + 1, !.written = @ + 1]
    /\ UNCHANGED <<uiVars, reqVars, pc, callVars, installVars, runVars, stop_event, chanVars,
                   invocations, fs, faults, returns>>

\* the environment builder creates the directory before it is complete
ChildWork ==
    /\ proc.state = "running"
    /\ proc.argv.tool = "venv"
    /\ fs.venv = "absent"
    /\ fs' = [fs EXCEPT !.venv = "partial"]
    /\ UNCHANGED <<uiVars, reqVars, pc, callVars, installVars, runVars, stop_event, chanVars,
                   invocations, proc, faults, returns>>

ChildExit ==
    /\ proc.state = "running"
    /\ \E code \in ExitCodes :
          /\ (code = 0 /\ proc.argv.tool # "venv") => VenvPresent
          /\ proc' = [proc EXCEPT !.state = "exited", !.returncode = code]
          /\ fs' = IF code # 0 THEN fs
                   ELSE IF proc.argv.tool = "venv" THEN [fs EXCEPT !.venv = "built"]
                   ELSE [fs EXCEPT !.installed = @ \cup Range(proc.argv.args)]
    /\ UNCHANGED <<uiVars, reqVars, pc, callVars, installVars, runVars, stop_event, chanVars,
                   invocations, faults, returns>>

(***************************************************************************)
(* run(), step 4: locating the installer and dispatching (lines 561-592).  *)
(***************************************************************************)
LocateInstaller ==
    /\ pc = "locate_installer"
    /\ \E pip_exists \in BOOLEAN, python_exists \in BOOLEAN :
          \/ /\ pip_exists
             /\ use_python_for_pip' = FALSE
             /\ UNCHANGED <<caller, cmd>>
             /\ IF packages # <<>>
                THEN post(<<>>) /\ pc' = "install_packages_batch"
                ELSE post(<<Log("No packages to install.")>>) /\ pc' = "write_requirements"
          \/ /\ ~pip_exists /\ python_exists
             /\ use_python_for_pip' = TRUE
             /\ IF packages # <<>>
                THEN /\ post(<<Log("Using python -m pip (pip binary not found).")>>)
                     /\ cmd' = PythonPipCmd(packages)
                     /\ caller' = "run_install"
                     /\ pc' = "rcs_launch"
                ELSE /\ post(<<Log("Using python -m pip (pip binary not found)."),
                               Log("No packages to install.")>>)
                     /\ UNCHANGED <<caller, cmd>>
                     /\ pc' = "write_requirements"
          \/ /\ ~pip_exists /\ ~python_exists
             /\ use_python_for_pip' = use_python_for_pip
             /\ UNCHANGED <<caller, cmd>>
             /\ post(<<Error("Cannot locate pip in venv. Aborting.")>>)
             /\ pc' = "cleanup"
    /\ UNCHANGED <<uiVars, reqVars, rc, valid_packages, idx, success_count, runVars, stop_event,
                   invocations, proc, fs, faults, returns>>

\* lines 582-586
python_pip_return ==
    /\ pc = "python_pip_return"
    /\ IF rc # 0
       THEN post(<<Error("Package installation failed.")>>) /\ pc' = "cleanup"
       ELSE post(<<>>) /\ pc' = "write_requirements"
    /\ UNCHANGED <<uiVars, reqVars, callVars, installVars, runVars, stop_event, invocations, proc, fs, faults, returns>>

(***************************************************************************)
(* install_packages_batch (lines 304-333).                                 *)
(***************************************************************************)
IsValid(p) == validate_package_name(p).valid
IsInvalid(p) == ~validate_package_name(p).valid

\* lines 312-318: the entries that pass the predicate, in list order
ValidPackages(pkgs) == SelectSeq(pkgs, IsValid)

\* line 318: one notice per entry that fails it, in list order
SkipNotices(pkgs) ==
    LET bad == SelectSeq(pkgs, IsInvalid)
    IN  [i \in 1..Len(bad) |-> SkipNotice(bad[i], validate_package_name(bad[i]).msg)]

install_packages_batch ==
    /\ pc = "install_packages_batch"
    /\ IF packages = <<>>
       THEN /\ post(<<>>)
            /\ UNCHANGED <<valid_packages, caller, cmd>>
            /\ pc' = "write_requirements"
       ELSE LET valid == ValidPackages(packages)
                notes == <<Log("Installing package(s) in batch...")>> \o SkipNotices(packages)
            IN  /\ valid_packages' = valid
                /\ IF valid = <<>>
                   THEN /\ post(notes \o <<Log("No valid packages to install.")>>)
                        /\ UNCHANGED <<caller, cmd>>
                        /\ pc' = "write_requirements"
                   ELSE /\ post(notes)
                        /\ cmd' = BatchCmd(valid)
                        /\ caller' = "batch"
                        /\ pc' = "rcs_launch"
    /\ UNCHANGED <<uiVars, reqVars, rc, idx, success_count, use_python_for_pip, runVars, stop_event,
                   invocations, proc, fs, faults, returns>>

\* lines 328-333, and lines 337-338 of the fallback it calls
batch_return ==
    /\ pc = "batch_return"
    /\ IF rc = 0
       THEN /\ post(<<Ok("Batch installation successful.")>>)
            /\ UNCHANGED <<idx, success_count>>
            /\ pc' = "write_requirements"
       ELSE /\ post(<<Warn("Batch installation failed, trying individual packages...")>>)
            /\ idx' = 1
            /\ success_count' = 0
            /\ pc' = "individual_check"
    /\ UNCHANGED <<uiVars, reqVars, callVars, valid_packages, use_python_for_pip, runVars, stop_event,
                   invocations, proc, fs, faults, returns>>

(***************************************************************************)
(* install_packages_individual (lines 335-364).                            *)
(***************************************************************************)
\* faulty variant: the attempt is launched without the check of line 341
individual_check_unchecked ==
    /\ pc = "individual_check"
    /\ post(<<Log("Installing [idx/total]")>>)
    /\ cmd' = IndividualCmd(valid_packages[idx])
    /\ caller' = "individual"
    /\ pc' = "rcs_launch"
    /\ UNCHANGED <<uiVars, reqVars, rc, installVars, runVars, stop_event, invocations, returns, proc,
                   fs, faults>>

\* lines 340-346: the check before an attempt, then the attempt's launch
individual_check ==
    /\ pc = "individual_check"
    /\ IF stop_event
       THEN /\ post(<<>>)
            /\ UNCHANGED <<caller, cmd>>
            /\ pc' = "cleanup"
       ELSE /\ post(<<Log("Installing [idx/total]")>>)
            /\ cmd' = IndividualCmd(valid_packages[idx])
            /\ caller' = "individual"
            /\ pc' = "rcs_launch"
    /\ UNCHANGED <<uiVars, reqVars, rc, installVars, runVars, stop_event, invocations, proc, fs, faults, returns>>

\* faulty variant: all-or-nothing, a partial installation is reported as failure
AggregateAllOrNothing(count, total) ==
    IF count = total
    THEN [ret |-> TRUE, events |-> <<Ok("All packages installed successfully.")>>]
    ELSE [ret |-> FALSE, events |-> <<Error("No packages were installed.")>>]

\* lines 356-364: the result and the events of the aggregation
Aggregate(count, total) ==
    IF count = total
    THEN [ret |-> TRUE, events |-> <<Ok("All packages installed successfully.")>>]
    ELSE IF count > 0
    THEN [ret |-> TRUE, events |-> <<InstalledOf(count, total)>>]
    ELSE [ret |-> FALSE, events |-> <<Error("No packages were installed.")>>]

\* faulty variant: the progress is computed from a loop index that starts at zero
individual_return_zero_based ==
    /\ pc = "individual_return"
    /\ LET total == Len(valid_packages)
           count == IF rc = 0 THEN success_count + 1 ELSE success_count
           failed == IF rc = 0 THEN <<>> ELSE <<Error("Failed to install")>>
           attempt == failed \o <<Progress(idx - 1, total)>>
       IN  /\ success_count' = count
           /\ IF idx < total
              THEN /\ post(attempt)
                   /\ idx' = idx + 1
                   /\ pc' = "individual_check"
              ELSE /\ post(attempt \o Aggregate(count, total).events)
                   /\ idx' = idx
                   /\ pc' = IF Aggregate(count, total).ret THEN "write_requirements"
                            ELSE "cleanup"
    /\ UNCHANGED <<uiVars, reqVars, callVars, valid_packages, use_python_for_pip, runVars, stop_event,
                   invocations, proc, fs, faults, returns>>

\* lines 348-364, and lines 588-590 of run()
individual_return ==
    /\ pc = "individual_return"
    /\ LET total == Len(valid_packages)
           count == IF rc = 0 THEN success_count + 1 ELSE success_count
           failed == IF rc = 0 THEN <<>> ELSE <<Error("Failed to install")>>
           attempt == failed \o <<Progress(idx, total)>>
       IN  /\ success_count' = count
           /\ IF idx < total
              THEN /\ post(attempt)
                   /\ idx' = idx + 1
                   /\ pc' = "individual_check"
              ELSE /\ post(attempt \o Aggregate(count, total).events)
                   /\ idx' = idx
                   /\ pc' = IF Aggregate(count, total).ret THEN "write_requirements"
                            ELSE "cleanup"
    /\ UNCHANGED <<uiVars, reqVars, callVars, valid_packages, use_python_for_pip, runVars, stop_event,
                   invocations, proc, fs, faults, returns>>


(***************************************************************************)
(* run(), steps 5-7: manifest, documentation, version control.             *)
(***************************************************************************)
\* lines 597-603: the step that follows the manifest, and the documentation
AfterManifest ==
    IF options.create_readme THEN "create_readme"
    ELSE IF options.create_git THEN "create_git_repo" ELSE "calculate_project_size"

AfterReadme == IF options.create_git THEN "create_git_repo" ELSE "calculate_project_size"

\* lines 373-374: one line per entry of self.packages, stripped
ManifestLines(pkgs) == [i \in 1..Len(pkgs) |-> Strip(pkgs[i])]

\* faulty variant: only the entries that pass the predicate are written
write_requirements_valid_only ==
    /\ pc = "write_requirements"
    /\ \E written \in BOOLEAN :
          IF written
          THEN /\ NoFault
               /\ fs' = [fs EXCEPT !.manifest_written = TRUE,
                                   !.manifest = ManifestLines(ValidPackages(packages))]
               /\ post(<<Ok("requirements.txt saved")>>)
          ELSE /\ Fault
               /\ fs' = fs
               /\ post(<<Error("Failed to write requirements.txt")>>)
    /\ pc' = AfterManifest
    /\ UNCHANGED <<uiVars, reqVars, callVars, installVars, runVars, stop_event, invocations, proc, returns>>

\* lines 366-379 and 594-595
write_requirements ==
    /\ pc = "write_requirements"
    /\ \E written \in BOOLEAN :
          IF written
          THEN /\ NoFault
               /\ fs' = [fs EXCEPT !.manifest_written = TRUE,
                                   !.manifest = ManifestLines(packages)]
               /\ post(<<Ok("requirements.txt saved")>>)
          ELSE /\ Fault
               /\ fs' = fs
               /\ post(<<Error("Failed to write requirements.txt")>>)
    /\ pc' = AfterManifest
    /\ UNCHANGED <<uiVars, reqVars, callVars, installVars, runVars, stop_event, invocations, proc, returns>>

\* lines 381-446 and 597-599
create_readme ==
    /\ pc = "create_readme"
    /\ \E written \in BOOLEAN :
          IF written
          THEN /\ NoFault
               /\ fs' = [fs EXCEPT !.readme = TRUE]
               /\ post(<<Ok("README.md created.")>>)
          ELSE /\ Fault
               /\ fs' = fs
               /\ post(<<Error("Failed to create README.md")>>)
    /\ pc' = AfterReadme
    /\ UNCHANGED <<uiVars, reqVars, callVars, installVars, runVars, stop_event, invocations, proc, returns>>

GitCmd(sub) == [tool |-> "git", mode |-> sub, args |-> <<>>]

\* lines 450-457: "git --version"; only CalledProcessError and
\* FileNotFoundError are caught here, any other fault reaches line 620
create_git_repo ==
    /\ pc = "create_git_repo"
    /\ invocations' = Append(invocations, GitCmd("--version"))
    /\ \E outcome \in {"ok", "not found", "other fault"} :
          \/ /\ outcome = "ok"
             /\ NoFault
             /\ post(<<Log("Initializing git repository...")>>)
             /\ pc' = "git_init"
          \/ /\ outcome = "not found"
             /\ Fault
             /\ post(<<Warn("Git not found or not in PATH. Skipping git initialization.")>>)
             /\ pc' = "calculate_project_size"
          \/ /\ outcome = "other fault"
             /\ Fault
             /\ post(<<>>)
             /\ pc' = "except"
    /\ UNCHANGED <<uiVars, reqVars, callVars, installVars, runVars, stop_event, proc, fs, returns>>

\* the launches of lines 461-517 up to and including the stage that fails
GitLaunches(failing) ==
    CASE failing = "init" -> <<GitCmd("init")>>
      [] failing = "gitignore" -> <<GitCmd("init")>>
      [] failing = "add" -> <<GitCmd("init"), GitCmd("add")>>
      [] failing \in {"commit", "none"} -> <<GitCmd("init"), GitCmd("add"), GitCmd("commit")>>

\* lines 459-527: init, ignore file, add, commit; every fault is caught
git_init ==
    /\ pc = "git_init"
    /\ \E failing \in {"none", "init", "gitignore", "add", "commit"} :
          /\ invocations' = invocations \o GitLaunches(failing)
          /\ fs' = [fs EXCEPT !.git = CASE failing = "none" -> "committed"
                                        [] failing = "init" -> "none"
                                        [] OTHER -> "initialized"]
          /\ IF failing = "none"
             THEN NoFault /\ post(<<Ok("Git repository initialized with initial commit.")>>)
             ELSE Fault /\ post(<<Error("Git operation failed")>>)
    /\ pc' = "calculate_project_size"
    /\ UNCHANGED <<uiVars, reqVars, callVars, installVars, runVars, stop_event, proc, returns>>

(***************************************************************************)
(* run(), steps 8-9 and the handlers (lines 605-628).                      *)
(***************************************************************************)
\* round(n / d) to the nearest integer, ties to even, as the format '.1f' rounds
RoundHalfEven(n, d) ==
    LET q == n \div d
        r == n % d
    IN  IF 2 * r > d THEN q + 1
        ELSE IF 2 * r < d THEN q
        ELSE IF q % 2 = 0 THEN q ELSE q + 1

\* lines 210-216: the number is kept in tenths of the unit
format_size(size_bytes) ==
    IF size_bytes < 1024
    THEN [tenths |-> 10 * size_bytes, unit |-> "B"]
    ELSE IF size_bytes < 1024 * 1024
    THEN [tenths |-> RoundHalfEven(10 * size_bytes, 1024), unit |-> "KB"]
    ELSE IF size_bytes < 1024 * 1024 * 1024
    THEN [tenths |-> RoundHalfEven(10 * size_bytes, 1024 * 1024), unit |-> "MB"]
    ELSE IF size_bytes < 1024 * 1024 * 1024 * 1024
    THEN [tenths |-> RoundHalfEven(10 * size_bytes, 1024 * 1024 * 1024), unit |-> "GB"]
    ELSE [tenths |-> RoundHalfEven(10 * size_bytes, 1024 * 1024 * 1024 * 1024), unit |-> "TB"]

\* lines 613-618, with the size the walk returned
Summary(size) ==
    [kind |-> "summary",
     project_path |-> "project_dir",
     project_size |-> format_size(size),
     package_count |-> Len(packages),
     git_initialized |-> options.create_git]

\* faulty variant: a fault of the walk is not caught in calculate_project_size
calculate_project_size_raising ==
    /\ pc = "calculate_project_size"
    /\ \E walk_ok \in BOOLEAN :
          IF walk_ok
          THEN /\ \E total_size \in 0..MaxSize :
                     /\ project_size' = total_size
                     /\ post(<<Info("Project size"), Done(TRUE), Summary(total_size)>>)
               /\ success' = TRUE
               /\ pc' = "finally"
          ELSE /\ project_size' = project_size
               /\ post(<<>>)
               /\ success' = success
               /\ pc' = "except"
    /\ UNCHANGED <<uiVars, reqVars, callVars, installVars, dir_idx, venv_path, stop_event,
                   invocations, proc, fs, faults, returns>>

\* lines 199-208 and 605-618: a fault of the walk is swallowed and the sum
\* accumulated so far is returned; then the success events
calculate_project_size ==
    /\ pc = "calculate_project_size"
    /\ \E total_size \in 0..MaxSize :
          /\ project_size' = total_size
          /\ post(<<Info("Project size"), Done(TRUE), Summary(total_size)>>)
    /\ success' = TRUE
    /\ pc' = "finally"
    /\ UNCHANGED <<uiVars, reqVars, callVars, installVars, dir_idx, venv_path, stop_event,
                   invocations, proc, fs, faults, returns>>

\* faulty variant: the fault ends the thread, nothing is posted
ExceptSilent ==
    /\ pc = "except"
    /\ post(<<>>)
    /\ pc' = "finished"
    /\ UNCHANGED <<uiVars, reqVars, callVars, installVars, runVars, stop_event, invocations, proc, fs,
                   faults, returns>>

\* lines 620-623
Except ==
    /\ pc = "except"
    /\ post(<<Error("Unexpected error"), Error("traceback")>>)
    /\ pc' = "finally"
    /\ UNCHANGED <<uiVars, reqVars, callVars, installVars, runVars, stop_event, invocations, proc, fs, faults, returns>>

\* faulty variant: the completion signal is sent before the failure Done
FinallyCompleteFirst ==
    /\ pc = "finally"
    /\ IF ~success
       THEN post(<<ProgressComplete, Done(FALSE)>>)
       ELSE post(<<ProgressComplete>>)
    /\ pc' = "finished"
    /\ UNCHANGED <<uiVars, reqVars, callVars, installVars, runVars, stop_event, invocations, returns,
                   proc, fs, faults>>

\* faulty variant: the failure Done is posted whatever success holds
FinallyAlwaysFailed ==
    /\ pc = "finally"
    /\ post(<<Done(FALSE), ProgressComplete>>)
    /\ pc' = "finished"
    /\ UNCHANGED <<uiVars, reqVars, callVars, installVars, runVars, stop_event, invocations, proc, fs, faults, returns>>

\* lines 624-628
Finally ==
    /\ pc = "finally"
    /\ IF ~success
       THEN post(<<Done(FALSE), ProgressComplete>>)
       ELSE post(<<ProgressComplete>>)
    /\ pc' = "finished"
    /\ UNCHANGED <<uiVars, reqVars, callVars, installVars, runVars, stop_event, invocations, proc, fs, faults, returns>>

(***************************************************************************)
(* The observer's cancel request (lines 1149-1158): the flag is set only   *)
(* while the worker is alive and the operator confirms.                    *)
(***************************************************************************)
on_cancel ==
    /\ WorkerAlive
    /\ stop_event' = TRUE
    /\ UNCHANGED <<uiVars, reqVars, pc, callVars, installVars, runVars, chanVars, invocations,
                   proc, fs, faults, returns>>

(***************************************************************************)
(* The observer (ProjectBuilderUI).  Its handlers run on the main thread,  *)
(* one call at a time, queued by the ui_thread_safe wrapper; a handler     *)
(* that opens a confirmation dialog waits in the dialog's event loop,      *)
(* where the queued calls and _periodic_check go on running.  While a      *)
(* dialog is open the main window takes no input.  A worker that           *)
(* self.worker no longer refers to is tracked only as alive or not.        *)
(***************************************************************************)
\* the requests on_create hands to a worker in the sessions checked here:
\* no packages (lines 1089-1110), options of lines 1132-1136
RequestLists == {<<>>}
RequestOptions == [create_readme : {FALSE}, create_git : {FALSE}, cleanup_on_fail : {FALSE}]

\* the worker-side variables a handler that starts nothing leaves alone
workerVars == <<packages, options, pc, callVars, installVars, runVars, chanVars,
                invocations, returns, proc, fs, faults, processed, runs, orphans, stale>>

\* lines 29-34: the wrapper queues the call with after(0)
ui_thread_safe(func) ==
    /\ dialogs = 0
    /\ Len(callbacks) < MaxQueued
    /\ callbacks' = Append(callbacks, func)
    /\ UNCHANGED <<dialogs, stop_event, workerVars>>

\* the calls of on_create waiting in the event loop
QueuedCreates == Cardinality({i \in 1..Len(callbacks) : callbacks[i] = "on_create"})

\* Ctrl-n or the Create button (lines 977 and 1042)
request_create ==
    /\ runs + dialogs + QueuedCreates < MaxRuns
    /\ ui_thread_safe("on_create")

\* Ctrl-c, Escape or the Cancel button (lines 978, 982 and 1149)
request_cancel == ui_thread_safe("on_cancel")

\* lines 1139-1142: the signal is cleared, a worker is created and started;
\* the queue is the one of line 687, the project directory is as it was left
StartWorker(pkgs, opts) ==
    /\ stop_event' = FALSE
    /\ packages' = pkgs
    /\ options' = opts
    /\ pc' = "create_folder"
    /\ caller' = "none"
    /\ cmd' = VenvCmd
    /\ rc' = 0
    /\ valid_packages' = <<>>
    /\ idx' = 0
    /\ success_count' = 0
    /\ use_python_for_pip' = FALSE
    /\ dir_idx' = 1
    /\ success' = FALSE
    /\ venv_path' = "None"
    /\ project_size' = 0
    /\ proc' = NoProc
    /\ invocations' = <<>>
    /\ returns' = <<>>
    /\ msgq' = msgq
    /\ emitted' = msgq
    /\ processed' = <<>>
    /\ stale' = Len(msgq)
    /\ runs' = runs + 1
    /\ orphans' = IF WorkerAlive THEN orphans + 1 ELSE orphans
    /\ UNCHANGED <<fs, faults>>

\* on_create up to its confirmation dialog (lines 1043-1087): busy when a
\* worker is alive; the "Overwrite?" dialog when the project folder exists
\* (line 1084); else the worker is started
on_create ==
    /\ callbacks # <<>>
    /\ Head(callbacks) = "on_create"
    /\ callbacks' = Tail(callbacks)
    /\ IF WorkerAlive
       THEN UNCHANGED <<dialogs, stop_event, workerVars>>
       ELSE IF fs.folder
       THEN /\ dialogs' = dialogs + 1
            /\ UNCHANGED <<stop_event, workerVars>>
       ELSE /\ dialogs' = dialogs
            /\ \E pkgs \in RequestLists, opts \in RequestOptions : StartWorker(pkgs, opts)

\* on_create from the answer of its dialog on (lines 1085-1147): the queued
\* calls have run by the time the operator answers
on_create_resume ==
    /\ dialogs > 0
    /\ callbacks = <<>>
    /\ dialogs' = dialogs - 1
    /\ UNCHANGED callbacks
    /\ \E yes \in BOOLEAN :
          IF yes
          THEN \E pkgs \in RequestLists, opts \in RequestOptions : StartWorker(pkgs, opts)
          ELSE UNCHANGED <<stop_event, workerVars>>

\* on_cancel as a queued call (lines 1149-1158), its dialog answered at once
on_cancel_call ==
    /\ callbacks # <<>>
    /\ Head(callbacks) = "on_cancel"
    /\ callbacks' = Tail(callbacks)
    /\ IF WorkerAlive
       THEN \E yes \in BOOLEAN : stop_event' = (stop_event \/ yes)
       ELSE stop_event' = stop_event
    /\ UNCHANGED <<dialogs, workerVars>>

\* faulty variant: the newest event is taken first
periodic_check_newest_first ==
    /\ msgq # <<>>
    /\ processed' = Append(processed, msgq[Len(msgq)])
    /\ msgq' = SubSeq(msgq, 1, Len(msgq) - 1)
    /\ stale' = IF stale = Len(msgq) THEN stale - 1 ELSE stale
    /\ UNCHANGED <<reqVars, callbacks, dialogs, runs, orphans, pc, callVars, installVars,
                   runVars, stop_event, emitted, invocations, returns, proc, fs, faults>>

\* one pass of the loop of _periodic_check (lines 1287-1348): get_nowait
\* takes the oldest event and the branch of its kind handles it
_periodic_check ==
    /\ msgq # <<>>
    /\ processed' = Append(processed, Head(msgq))
    /\ msgq' = Tail(msgq)
    /\ stale' = IF stale > 0 THEN stale - 1 ELSE 0
    /\ UNCHANGED <<reqVars, callbacks, dialogs, runs, orphans, pc, callVars, installVars,
                   runVars, stop_event, emitted, invocations, returns, proc, fs, faults>>

\* the thread of a worker that self.worker no longer refers to ends
orphan_exit ==
    /\ orphans > 0
    /\ orphans' = orphans - 1
    /\ UNCHANGED <<reqVars, callbacks, dialogs, runs, processed, stale, pc, callVars,
                   installVars, runVars, stop_event, chanVars, invocations, returns, proc, fs,
                   faults>>

(***************************************************************************)
(* Specification.                                                          *)
(***************************************************************************)
Next ==
    \/ CreateFolder
    \/ create_directory_structure
    \/ VenvCheck
    \/ create_venv
    \/ create_venv_return
    \/ _cleanup_partial
    \/ rcs_launch
    \/ rcs_check
    \/ rcs_read
    \/ ChildWrite
    \/ ChildWork
    \/ ChildExit
    \/ LocateInstaller
    \/ python_pip_return
    \/ install_packages_batch
    \/ batch_return
    \/ individual_check
    \/ individual_return
    \/ write_requirements
    \/ create_readme
    \/ create_git_repo
    \/ git_init
    \/ calculate_project_size
    \/ Except
    \/ Finally
    \/ on_cancel

Spec == Init /\ [][Next]_vars

\* the steps of the worker thread: every step but those of the child process
\* and of the operator
Worker ==
    \/ CreateFolder
    \/ create_directory_structure
    \/ VenvCheck
    \/ create_venv
    \/ create_venv_return
    \/ _cleanup_partial
    \/ rcs_launch
    \/ rcs_check
    \/ rcs_read
    \/ LocateInstaller
    \/ python_pip_return
    \/ install_packages_batch
    \/ batch_return
    \/ individual_check
    \/ individual_return
    \/ write_requirements
    \/ create_readme
    \/ create_git_repo
    \/ git_init
    \/ calculate_project_size
    \/ Except
    \/ Finally

\* the started thread (line 1142) keeps running while it has a step to take;
\* nothing is assumed of the child process, which may neither write nor exit,
\* nor of the operator
FairSpec == Spec /\ WF_vars(Worker)

\* a session of the observer: no worker yet (line 689), a project folder
\* that is absent or empty, and an environment that raises no fault
UIInit ==
    /\ packages = <<>>
    /\ options = [create_readme |-> FALSE, create_git |-> FALSE, cleanup_on_fail |-> FALSE]
    /\ pc = "no_worker"
    /\ caller = "none"
    /\ cmd = VenvCmd
    /\ rc = 0
    /\ valid_packages = <<>>
    /\ idx = 0
    /\ success_count = 0
    /\ use_python_for_pip = FALSE
    /\ dir_idx = 1
    /\ success = FALSE
    /\ venv_path = "None"
    /\ project_size = 0
    /\ stop_event = FALSE
    /\ msgq = <<>>
    /\ emitted = <<>>
    /\ invocations = <<>>
    /\ returns = <<>>
    /\ proc = NoProc
    /\ faults = MaxFaults
    /\ callbacks = <<>>
    /\ dialogs = 0
    /\ processed = <<>>
    /\ runs = 0
    /\ orphans = 0
    /\ stale = 0
    /\ fs \in [folder : BOOLEAN, dirs : {{}}, venv : {"absent"}, installed : {{}},
               manifest_written : {FALSE}, manifest : {<<>>}, readme : {FALSE},
               git : {"none"}]

\* the steps of the worker in a session without faults and packages
UIWorker ==
    \/ CreateFolder
    \/ create_directory_structure
    \/ VenvCheck
    \/ create_venv
    \/ create_venv_return
    \/ _cleanup_partial
    \/ rcs_launch
    \/ rcs_check
    \/ rcs_read
    \/ LocateInstaller
    \/ write_requirements
    \/ calculate_project_size
    \/ Finally
    \/ ChildWrite
    \/ ChildWork
    \/ ChildExit

\* the observer keeps up: the worker and its child take a step when the
\* queue is empty
UINext ==
    \/ request_create
    \/ request_cancel
    \/ on_create
    \/ on_create_resume
    \/ on_cancel_call
    \/ _periodic_check
    \/ orphan_exit
    \/ (msgq = <<>> /\ UIWorker)

UISpec == UIInit /\ [][UINext]_vars

\* the last run of a session, the observer running at any pace
ChannelInit ==
    /\ packages = <<>>
    /\ options = [create_readme |-> FALSE, create_git |-> FALSE, cleanup_on_fail |-> FALSE]
    /\ pc = "no_worker"
    /\ caller = "none"
    /\ cmd = VenvCmd
    /\ rc = 0
    /\ valid_packages = <<>>
    /\ idx = 0
    /\ success_count = 0
    /\ use_python_for_pip = FALSE
    /\ dir_idx = 1
    /\ success = FALSE
    /\ venv_path = "None"
    /\ project_size = 0
    /\ stop_event = FALSE
    /\ msgq = <<>>
    /\ emitted = <<>>
    /\ invocations = <<>>
    /\ returns = <<>>
    /\ proc = NoProc
    /\ faults = MaxFaults
    /\ callbacks = <<>>
    /\ dialogs = 0
    /\ processed = <<>>
    /\ runs = MaxRuns - 1
    /\ orphans = 0
    /\ stale = 0
    /\ fs \in [folder : BOOLEAN, dirs : {{}}, venv : {"absent", "pre"}, installed : {{}},
               manifest_written : {FALSE}, manifest : {<<>>}, readme : {FALSE},
               git : {"none"}]

ChannelNext ==
    \/ request_create
    \/ request_cancel
    \/ on_create
    \/ on_create_resume
    \/ on_cancel_call
    \/ _periodic_check
    \/ UIWorker

ChannelSpec == ChannelInit /\ [][ChannelNext]_vars


(***************************************************************************)
(* Observations on the histories, used by the properties below.            *)
(***************************************************************************)
EventsOfKind(k) == {i \in 1..Len(emitted) : emitted[i].kind = k}
DoneEmitted == EventsOfKind("done") # {}
DoneOkEmitted == \E i \in EventsOfKind("done") : emitted[i].ok
DoneFailedEmitted == \E i \in EventsOfKind("done") : ~emitted[i].ok
Emitted(e) == \E i \in 1..Len(emitted) : emitted[i] = e
LastEvent == emitted[Len(emitted)]

IsInstallerCmd(c) == c.tool \in {"pip", "python -m pip"}
InstallerInvocations == SelectSeq(invocations, IsInstallerCmd)
BatchIdx == {i \in 1..Len(invocations) : invocations[i].mode = "batch"}
IndividualIdx == {i \in 1..Len(invocations) : invocations[i].mode = "individual"}
Returned(i) == i <= Len(returns)
BatchFailed == \E i \in BatchIdx : Returned(i) /\ returns[i] # 0
BatchSucceeded == \E i \in BatchIdx : Returned(i) /\ returns[i] = 0
NumIndividual == Cardinality(IndividualIdx)
NumIndividualOk == Cardinality({i \in IndividualIdx : Returned(i) /\ returns[i] = 0})
\* every validated package was attempted and every attempt has returned
FallbackCompleted ==
    /\ NumIndividual > 0
    /\ NumIndividual = Len(ValidPackages(packages))
    /\ \A i \in IndividualIdx : Returned(i)
\* the fallback was left at line 342, before all packages were attempted
FallbackCutShort ==
    /\ idx >= 1
    /\ NumIndividual < Len(valid_packages)
    /\ pc \in {"cleanup", "finally", "finished"}
\* the packages whose individual attempt returned zero
InstalledIndividually ==
    {invocations[i].args[1] : i \in {j \in IndividualIdx : Returned(j) /\ returns[j] = 0}}

\* the pipeline step (section 4.3) a position of the worker belongs to
PipelineStep(p, c) ==
    CASE p = "create_folder" -> "CreateFolder"
      [] p = "create_dirs" -> "CreateLayout"
      [] p \in {"venv_check", "create_venv", "create_venv_return"} -> "CreateEnvironment"
      [] p = "locate_installer" -> "LocateInstaller"
      [] p \in {"install_packages_batch", "batch_return", "individual_check",
                "individual_return", "python_pip_return"} -> "InstallPackages"
      [] p \in {"rcs_launch", "rcs_check", "rcs_read"} ->
             IF c = "create_venv" THEN "CreateEnvironment" ELSE "InstallPackages"
      [] p = "write_requirements" -> "WriteManifest"
      [] p = "create_readme" -> "WriteDocumentation"
      [] p \in {"create_git_repo", "git_init"} -> "InitVersionControl"
      [] p = "calculate_project_size" -> "ComputeSize"
      [] OTHER -> "Finalize"

LaterSteps == {"CreateLayout", "CreateEnvironment", "InstallPackages", "WriteManifest",
               "WriteDocumentation", "InitVersionControl", "ComputeSize"}

StepBegins ==
    /\ PipelineStep(pc', caller') \in LaterSteps
    /\ PipelineStep(pc', caller') # PipelineStep(pc, caller)

(***************************************************************************)
(* Properties.                                                             *)
(***************************************************************************)

\* C1: if stop_event is set before the run's Done event is emitted, the Done
\* event reports failure: no step taken while the signal is set and no Done
\* has been emitted yet emits a success Done.
C1_CancelledRunNeverSucceeds ==
    [][(stop_event /\ ~DoneEmitted) => ~DoneOkEmitted']_vars

\* C2: once stop_event is set, no later pipeline step begins and the worker
\* launches no new external process.
C2_NoStepAfterCancel ==
    [][stop_event => (~StepBegins /\ invocations' = invocations)]_vars

\* C3 (as stated): in every run, successful or failed, the events end with
\* Done, then Summary, then ProgressComplete.
C3_DoneSummaryCompleteAlways ==
    pc = "finished" =>
        LET n == Len(emitted)
        IN  /\ n >= 3
            /\ emitted[n - 2].kind = "done"
            /\ emitted[n - 1].kind = "summary"
            /\ emitted[n].kind = "progress_complete"

\* C3 (amended): every run ends with ProgressComplete as its last event; in a
\* successful run the last three events are Done(true), Summary,
\* ProgressComplete; in a failed run the last two are Done(false),
\* ProgressComplete and no Summary event is emitted at all.
C3_DoneThenComplete ==
    pc = "finished" =>
        LET n == Len(emitted)
        IN  /\ n >= 2
            /\ emitted[n] = ProgressComplete
            /\ IF success
               THEN /\ n >= 3
                    /\ emitted[n - 2] = Done(TRUE)
                    /\ emitted[n - 1].kind = "summary"
               ELSE /\ emitted[n - 1] = Done(FALSE)
                    /\ EventsOfKind("summary") = {}

\* a failed run that got as far as the environment step has finished
C3_Witness == pc = "finished" /\ ~success /\ venv_path # "None"

\* C4: no entry whose text holds one of ; | & $ ` is in the argument vector
\* of any process invocation, and once the installer has been invoked every
\* such entry of the request has its skip notice.
C4_MetaCharEntriesNeverInvoked ==
    /\ \A i \in 1..Len(invocations) :
          \A j \in 1..Len(invocations[i].args) : ~HasMetaChar(invocations[i].args[j])
    /\ InstallerInvocations # <<>> =>
          \A k \in 1..Len(packages) :
             HasMetaChar(packages[k]) =>
                \E i \in EventsOfKind("warn") :
                   /\ emitted[i].text = "Skipping invalid package"
                   /\ emitted[i].pkg = packages[k]

\* C5: when the batch invocation has returned non-zero (and the run was not
\* cancelled), the finished run has made one individual invocation per
\* validated package, in list order, whichever way the installer was located.
C5_FallbackAfterBatchFailure ==
    (pc = "finished" /\ ~stop_event /\ BatchFailed) =>
        LET valid == ValidPackages(packages)
            individual == SelectSeq(InstallerInvocations, LAMBDA c : c.mode = "individual")
        IN  individual = [i \in 1..Len(valid) |-> IndividualCmd(valid[i])]

\* C6: without cancellation, if the batch attempt failed and every one of the
\* N individual attempts returned zero, the run ends with Done(true) and the
\* installer invocations are exactly the batch followed by the N individual
\* ones; if the batch attempt returned zero there is no individual invocation.
C6_BatchThenIndividuals ==
    (pc = "finished" /\ ~stop_event) =>
        LET valid == ValidPackages(packages)
        IN  /\ (BatchFailed /\ FallbackCompleted /\ NumIndividualOk = NumIndividual) =>
                  /\ DoneOkEmitted
                  /\ InstallerInvocations =
                        <<BatchCmd(valid)>> \o [i \in 1..Len(valid) |-> IndividualCmd(valid[i])]
            /\ BatchSucceeded => NumIndividual = 0

\* C7: when the fallback has attempted every package, with total the number
\* attempted and k the number of attempts that returned zero: it returns
\* success when k = total, success with the warning "k/total" when
\* 0 < k < total, and failure when k = 0.
C7_FallbackAggregation ==
    [][(pc = "individual_return" /\ pc' \notin {"individual_return", "individual_check"}) =>
          LET total == NumIndividual
              k == NumIndividualOk
          IN  /\ total = Len(valid_packages)
              /\ k = total =>
                    /\ pc' = "write_requirements"
                    /\ LastEvent' = Ok("All packages installed successfully.")
              /\ (0 < k /\ k < total) =>
                    /\ pc' = "write_requirements"
                    /\ LastEvent' = InstalledOf(k, total)
              /\ k = 0 =>
                    /\ pc' = "cleanup"
                    /\ LastEvent' = Error("No packages were installed.")]_vars

\* the fallback has aggregated a partial installation: one of two installed
C7_Witness == Emitted(InstalledOf(1, 2))

\* C8: without cancellation, a fallback in which no package installed ends
\* the run with Done(false), and one in which at least one but not all
\* packages installed lets the run continue and end with Done(true).
C8_OnlyTotalFailureFatal ==
    (pc = "finished" /\ ~stop_event /\ FallbackCompleted) =>
        /\ NumIndividualOk = 0 => (DoneFailedEmitted /\ ~DoneOkEmitted)
        /\ (0 < NumIndividualOk /\ NumIndividualOk < NumIndividual) => DoneOkEmitted

\* C9: if stop_event is set when the check before an individual attempt is
\* made, the worker makes no invocation for that package and leaves the
\* fallback with failure (run() goes to the cleanup); after that no installer
\* invocation is made for any later package.
C9_CancelStopsFallback ==
    /\ [][(pc = "individual_check" /\ stop_event) =>
             /\ invocations' = invocations
             /\ pc' \in {"individual_check", "cleanup"}]_vars
    /\ [][(pc \in {"cleanup", "finally", "finished"}) => (invocations' = invocations)]_vars

\* the fallback was cut short by the check after at least one attempt
C9_Witness == FallbackCutShort /\ stop_event /\ NumIndividual >= 1

InRunner == pc \in {"rcs_check", "rcs_read"}

\* line 243
CancelledText == Warn("Operation cancelled by user.")

\* C11: if stop_event is set while the child process is running, the
\* run_command_stream call in progress eventually returns, whatever the child
\* does (also when it writes nothing more and does not exit).
C11_RunnerReturnsAfterCancel ==
    (stop_event /\ InRunner /\ proc.state = "running") ~> ~InRunner

\* C12: whenever run_command_stream returns, the child process it launched
\* is no longer running: it has exited or has been terminated.
C12_NoRunningChildAfterReturn ==
    [][(InRunner /\ ~InRunner') => (proc'.state # "running")]_vars

\* C13: the code run_command_stream returns when it stops because of
\* cancellation is none of the codes a process that really ran can exit with.
C13_CancelSentinelDistinct ==
    [][(pc = "rcs_check" /\ stop_event /\ ~InRunner') => (rc' \notin ExitCodes)]_vars

\* the run was aborted because a check observed the signal: the one of the
\* runner (which is what emits the cancelled text) or the one before a
\* fallback attempt
AbortedByCancel == DoneFailedEmitted /\ (FallbackCutShort \/ Emitted(CancelledText))

\* C14: a run aborted because of cancellation has emitted the cancelled text
\* before its Done event, whichever check observed the signal.
C14_CancelledTextBeforeDone ==
    (pc = "finished" /\ AbortedByCancel) =>
        \E i \in 1..Len(emitted) :
            /\ emitted[i] = CancelledText
            /\ \A j \in EventsOfKind("done") : i < j

\* the run has launched the build tool and the environment directory has
\* come into existence
EnvCreated == fs.venv # "absent" /\ \E i \in 1..Len(invocations) : invocations[i].tool = "venv"

CleanedUp == Log("Cleaned up partial virtual environment.")
CleanupFailed == Warn("Failed to cleanup")

\* C15: when a run is about to emit, or has emitted, Done(false) and the
\* environment directory was created by the run: with cleanup_on_fail enabled the directory
\* has been removed (or the removal failed and was reported as a warning, the
\* best effort of the cleanup policy); with cleanup_on_fail disabled the
\* directory has not been removed.
C15_CleanupPolicyOnFailure ==
    (pc \in {"finally", "finished"} /\ ~success /\ EnvCreated) =>
        IF cleanup_on_cancel
        THEN fs.venv = "removed" \/ Emitted(CleanupFailed)
        ELSE fs.venv # "removed"

FolderError == Error("Cannot create project folder")

\* C16: once the creation of the destination folder has failed, no
\* subdirectory is created, no process (environment build, installer) is
\* launched, no cleanup is performed, and the run ends with Done(false): its
\* events are the folder error, Done(false), ProgressComplete.
C16_FolderFailureEndsRun ==
    Emitted(FolderError) =>
        /\ pc \in {"finally", "finished"}
        /\ fs.dirs = {}
        /\ invocations = <<>>
        /\ fs.venv \in {"absent", "pre"}
        /\ ~Emitted(CleanedUp) /\ ~Emitted(CleanupFailed)
        /\ ~DoneOkEmitted
        /\ pc = "finished" => emitted = <<FolderError, Done(FALSE), ProgressComplete>>

\* a run whose folder creation failed has finished
C16_Witness == pc = "finished" /\ Emitted(FolderError)

\* C17: the layout step is never fatal: whatever happens while a
\* subdirectory is created, the worker leaves the step for CreateEnvironment.
C17_LayoutFailureNotFatal ==
    [][(pc = "create_dirs" /\ pc' # "create_dirs") => (pc' = "venv_check")]_vars

\* line 555
ReuseWarning == Warn("venv already exists, reusing.")

\* C18: when the environment directory exists at step 3, the step emits the
\* reuse warning, launches nothing and goes on to LocateInstaller; a run that
\* reused the directory never invokes the build tool.
C18_ExistingEnvReused ==
    /\ [][(pc = "venv_check" /\ VenvPresent /\ pc' # "venv_check") =>
             /\ pc' = "locate_installer"
             /\ LastEvent' = ReuseWarning
             /\ invocations' = invocations]_vars
    /\ [](Emitted(ReuseWarning) =>
             \A i \in 1..Len(invocations) : invocations[i].tool # "venv")

\* a run that reused the environment directory has succeeded
C18_Witness == pc = "finished" /\ Emitted(ReuseWarning) /\ DoneOkEmitted

\* lines 285, 298 and 571
EnvBuildErrors == {Error("No write permission"), Error("Virtual environment creation failed.")}
LocateError == Error("Cannot locate pip in venv. Aborting.")

\* C19: when the environment build fails or the installer cannot be located,
\* the worker goes to the cleanup policy (which removes the environment
\* directory if cleanup_on_fail is set and the directory exists, reporting a
\* failed removal as a warning, and otherwise touches nothing), no installer
\* is ever invoked, and the run ends with Done(false).
C19_EnvFailuresFatal ==
    /\ [][(Len(emitted') > Len(emitted) /\ LastEvent' \in EnvBuildErrors \cup {LocateError}) =>
             (pc' = "cleanup")]_vars
    /\ [][(pc = "cleanup" /\ pc' # "cleanup") =>
             /\ pc' = "finally"
             /\ IF cleanup_on_cancel /\ venv_path # "None" /\ VenvPresent
                THEN fs'.venv = "removed" \/ LastEvent' = CleanupFailed
                ELSE fs' = fs]_vars
    /\ []((\E e \in EnvBuildErrors \cup {LocateError} : Emitted(e)) =>
             /\ InstallerInvocations = <<>>
             /\ ~DoneOkEmitted
             /\ pc = "finished" => DoneFailedEmitted)

\* the installer was not found in a built environment, which was then removed
C19_Witness == pc = "finished" /\ Emitted(LocateError) /\ fs.venv = "removed"

\* C20: a run that has reached InitVersionControl ends with Done(true),
\* whatever fails in that step.
C20_VersionControlFailureNotFatal ==
    (pc = "finished" /\ \E i \in 1..Len(invocations) : invocations[i] = GitCmd("--version")) =>
        (DoneOkEmitted /\ ~DoneFailedEmitted)

\* lines 378 and 445
ManifestError == Error("Failed to write requirements.txt")
ReadmeError == Error("Failed to create README.md")

\* C21 (as stated): a run in which the manifest or the documentation could
\* not be written ends with Done(true).
C21_WriteFailureRunSucceeds ==
    (pc = "finished" /\ (Emitted(ManifestError) \/ Emitted(ReadmeError))) =>
        (DoneOkEmitted /\ ~DoneFailedEmitted)

\* the fault handler of run() has run
UnexpectedError == Error("Unexpected error")

\* C22: a fault that reaches the handler of run() is reported as an error
\* event and the run finalizes as failed: a finished worker has always
\* emitted a Done event, and a run with such a fault emits Done(false) and
\* never Done(true).
C22_UnexpectedFaultFinalizesFailed ==
    /\ [][(pc = "except" /\ pc' # "except") =>
             /\ pc' = "finally"
             /\ Emitted(UnexpectedError)']_vars
    /\ [](pc = "finished" => DoneEmitted)
    /\ []((pc = "except" \/ Emitted(UnexpectedError)) =>
             /\ ~DoneOkEmitted
             /\ pc = "finished" => DoneFailedEmitted)

\* a run with an unexpected fault has finished
C22_Witness == pc = "finished" /\ Emitted(UnexpectedError)

\* the Summary events emitted so far
Summaries == {emitted[i] : i \in EventsOfKind("summary")}

\* C23: the Summary's git_initialized field is true only if the repository
\* was initialized and committed in this run.
C23_SummaryGitOnlyIfInitialized ==
    \A s \in Summaries : s.git_initialized => fs.git = "committed"

\* C24: the Summary's package_count is the number of packages installed in
\* the run.
C24_SummaryCountsInstalled ==
    \A s \in Summaries : s.package_count = Cardinality(fs.installed)

\* C29: the size step never fails the run: whatever the walk meets, the
\* step reports a size between zero and the full total, sets success and
\* emits Done(true), and the run then ends with Done(true) only.
C29_ComputeSizeNeverFails ==
    /\ [][(pc = "calculate_project_size" /\ pc' # "calculate_project_size") =>
             /\ pc' = "finally"
             /\ success'
             /\ project_size' \in 0..MaxSize
             /\ Emitted(Done(TRUE))'
             /\ ~Emitted(Done(FALSE))']_vars
    /\ []((pc = "finished" /\ Emitted(Info("Project size"))) =>
             (DoneOkEmitted /\ ~DoneFailedEmitted))

\* the walk accumulated nothing and the run has succeeded
C29_Witness == pc = "finished" /\ Emitted(Info("Project size")) /\ project_size = 0 /\ DoneOkEmitted

\* the run has ended with Done(true)
Succeeded == pc = "finished" /\ DoneOkEmitted

\* every requested entry passes the predicate and is installed
AllValidAllInstalled ==
    \A i \in 1..Len(packages) : IsValid(packages[i]) /\ packages[i] \in fs.installed

\* C25 (as stated): on a successful run the dependency-list file holds
\* exactly the requested specifiers, one per line in request order, and
\* a request whose packages are all valid and all install is summarized
\* with package_count equal to the number requested.
C25_ManifestHoldsRequest ==
    Succeeded =>
        /\ fs.manifest_written
        /\ fs.manifest = packages
        /\ AllValidAllInstalled => \A s \in Summaries : s.package_count = Len(packages)

\* C25 (amended): on a successful run whose manifest write raised no error
\* the file holds one line per requested entry, in request order, each the
\* entry's text without surrounding blanks; the package_count part as stated.
C25_ManifestHoldsStrippedRequest ==
    Succeeded =>
        /\ ~Emitted(ManifestError) =>
              /\ fs.manifest_written
              /\ Len(fs.manifest) = Len(packages)
              /\ \A i \in 1..Len(packages) : fs.manifest[i] = Strip(packages[i])
        /\ AllValidAllInstalled => \A s \in Summaries : s.package_count = Len(packages)

\* a successful run wrote two entries, one of them padded and skipped by
\* the installer
C25_Witness ==
    /\ Succeeded
    /\ fs.manifest_written
    /\ Len(packages) = 2
    /\ \E i \in 1..2 : Strip(packages[i]) # packages[i]
    /\ \E i \in 1..2 : packages[i] \in fs.installed

\* C26: the observer handles the events in the order the worker emitted
\* them: what it has handled, followed by what waits in the queue, is what
\* was emitted, and each pass of its loop handles the oldest waiting event.
C26_ObserverKeepsEmissionOrder ==
    /\ [](processed \o msgq = emitted)
    /\ [][(processed' # processed /\ processed' # <<>>) =>
             /\ msgq # <<>>
             /\ processed' = Append(processed, Head(msgq))
             /\ msgq' = Tail(msgq)
             /\ emitted' = emitted]_vars

\* the observer has handled some events while the worker is running and
\* others wait
C26_Witness == WorkerAlive /\ Len(processed) >= 2 /\ Len(msgq) >= 2

\* the live workers
AliveWorkers == (IF WorkerAlive THEN 1 ELSE 0) + orphans

\* a queued call of the handler runs in this step
Handles(func) == callbacks # <<>> /\ Head(callbacks) = func /\ callbacks' = Tail(callbacks)

\* C27: at most one worker is alive at any time, and a start request
\* handled while a worker is alive creates no worker and leaves the
\* cancellation signal as it is.
C27_OneWorkerAtATime ==
    /\ [](AliveWorkers <= 1)
    /\ [][(Handles("on_create") /\ WorkerAlive) =>
             /\ runs' = runs
             /\ pc' = pc
             /\ stop_event' = stop_event]_vars

\* C28: the signal is cleared only by the start of a new run and only when
\* no worker is alive, every run starts with the signal unset, and a
\* cancel request handled when no worker is alive leaves the signal as it is.
C28_SignalEdgeSemantics ==
    /\ [][(stop_event /\ ~stop_event') => (runs' = runs + 1 /\ AliveWorkers = 0)]_vars
    /\ [][(runs' = runs + 1) => (~stop_event' /\ pc' = "create_folder")]_vars
    /\ [][(Handles("on_cancel") /\ AliveWorkers = 0) => stop_event' = stop_event]_vars

\* C30: a layout step on a destination that already holds the seven
\* subdirectories raises no fault and leaves the set as it is, and after
\* the layout the set is the seven subdirectories, in a first run and in
\* a later one.
C30_LayoutIdempotent ==
    /\ [][(create_directory_structure /\ Range(Directories) \subseteq fs.dirs) =>
             /\ pc' \in {"create_dirs", "venv_check"}
             /\ fs'.dirs = fs.dirs]_vars
    /\ [](pc = "venv_check" => fs.dirs = Range(Directories))

\* the layout has run a second time on the destination
C30_Witness ==
    /\ runs = 2
    /\ orphans = 0
    /\ pc = "venv_check"
    /\ Len(emitted) >= Len(Directories)
    /\ fs.dirs = Range(Directories)

\* line 233
LaunchError == Error("Failed to run command")

\* the output Log events emitted so far, in order
IsOutputLog(e) == e.kind = "log" /\ e.text = "process output line"
OutputLogs == SelectSeq(emitted, IsOutputLog)

\* the positions run_command_stream returns to
ReturnSites == {"create_venv_return", "python_pip_return", "batch_return", "individual_return"}

\* C31: a launch that fails adds one error event and nothing else to the
\* events, creates no process, returns a non-zero code, and the calling
\* step then takes its failure branch.
C31_LaunchFailureIsCommandFailure ==
    /\ [][(pc = "rcs_launch" /\ pc' \notin {"rcs_launch", "rcs_check"}) =>
             /\ emitted' = Append(emitted, LaunchError)
             /\ proc' = proc
             /\ rc' # 0
             /\ returns' = Append(returns, rc')
             /\ pc' \in ReturnSites]_vars
    /\ [][(pc \in ReturnSites /\ LastEvent = LaunchError /\ pc' # pc) =>
             /\ pc = "create_venv_return" =>
                   (pc' = "cleanup" /\ LastEvent' = Error("Virtual environment creation failed."))
             /\ pc = "python_pip_return" =>
                   (pc' = "cleanup" /\ LastEvent' = Error("Package installation failed."))
             /\ pc = "batch_return" =>
                   (pc' = "individual_check" /\ ~Emitted(Ok("Batch installation successful."))')
             /\ pc = "individual_return" =>
                   (success_count' = success_count /\ Emitted(Error("Failed to install"))')]_vars

\* an individual attempt could not be launched and the fallback went on
C31_Witness ==
    /\ pc = "individual_check"
    /\ idx = 2
    /\ success_count = 0
    /\ Emitted(LaunchError)
    /\ OutputLogs = <<>>

\* the cancelled warnings emitted so far
Cancellations == {i \in 1..Len(emitted) : emitted[i] = CancelledText}

IsProgress(e) == e.kind = "progress"
ProgressEvents == SelectSeq(emitted, IsProgress)

\* the fraction a / b is less than the fraction c / d (b and d positive)
FractionLess(a, b, c, d) == a * d < c * b

\* C33: the k-th Progress event of a run carries k / total, total the
\* number of packages of the fallback, and there is one per attempt made;
\* so every value lies in (0, 1], the values increase strictly, and the
\* last one is 1 once every package has been attempted.
C33_ProgressAfterEachAttempt ==
    [](LET P == ProgressEvents
           n == Len(P)
       IN  /\ \A k \in 1..n :
                  /\ P[k].idx = k
                  /\ P[k].total = Len(valid_packages)
                  /\ 0 < P[k].idx
                  /\ P[k].idx <= P[k].total
           /\ \A j, k \in 1..n :
                  j < k => FractionLess(P[j].idx, P[j].total, P[k].idx, P[k].total)
           /\ (pc \in {"individual_check", "write_requirements", "cleanup", "finished"}) =>
                  n = NumIndividual
           /\ (/\ pc # "individual_return"
               /\ NumIndividual > 0
               /\ NumIndividual = Len(valid_packages)
               /\ \A i \in IndividualIdx : Returned(i)) =>
                  P[n].idx = P[n].total)

\* two packages were attempted one by one, the second under cancellation
C33_Witness ==
    /\ pc = "finished"
    /\ Len(ProgressEvents) = 2
    /\ ProgressEvents[2] = Progress(2, 2)
    /\ Emitted(CancelledText)

\* C34: a finished run has emitted exactly one Done event and exactly one
\* ProgressComplete event, the latter as its last event; before that a run
\* has emitted at most one Done event and no ProgressComplete event; and
\* Done(true) and Done(false) are never both emitted.
C34_OneDoneOneComplete ==
    [](LET dones == EventsOfKind("done")
           completes == EventsOfKind("progress_complete")
       IN  /\ pc = "finished" =>
                 /\ Cardinality(dones) = 1
                 /\ Cardinality(completes) = 1
                 /\ LastEvent = ProgressComplete
           /\ pc # "finished" =>
                 /\ Cardinality(dones) <= 1
                 /\ completes = {}
           /\ \A i, j \in dones : emitted[i].ok = emitted[j].ok)

\* a run that was cancelled in a process call and then met an unexpected
\* fault has finished
C34_Witness ==
    /\ pc = "finished"
    /\ DoneFailedEmitted
    /\ Emitted(CancelledText)
    /\ faults > 0

\* C35: an environment directory that existed before the run and was
\* reused is never removed by the run, whatever ends it.
C35_ReusedEnvNeverRemoved ==
    Emitted(ReuseWarning) => fs.venv = "pre"

\* C36: every event the observer handles once a run has been started was
\* emitted by that run: none that an earlier run emitted is still in the
\* queue to be handled.
C36_EventsScopedToRun ==
    [][(Len(processed') > Len(processed)) => stale = 0]_vars

=============================================================================
